---- MODULE Spec2Model ----
(***************************************************************************)
(* Model of src/trading212_server.py: the Trading212 MCP server.            *)
(*                                                                         *)
(* One invocation context ("slot") runs one tool operation at a time.  A   *)
(* tool runs from its entry to its call of make_request (or to its return, *)
(* when it returns before any call); make_request runs to the point where  *)
(* it awaits the HTTP response (or returns at once, and the tool with it); *)
(* and the tool resumes and returns when the remote outcome arrives.       *)
(*                                                                         *)
(* Text is modelled as sequences of one-character strings, so that         *)
(* strip(), lower(), upper(), float(), int() and the substring test are    *)
(* computed character by character.  The failure marker (the cross-mark    *)
(* glyph that starts every error text of the source) is written "[X]".     *)
(***************************************************************************)
EXTENDS Integers, Sequences, FiniteSets, TLC

VARIABLES environ, API_KEY, API_SECRET, ENVIRONMENT, inv

vars == <<environ, API_KEY, API_SECRET, ENVIRONMENT, inv>>

(***************************************************************************)
(* Bounds of the model.                                                    *)
(***************************************************************************)
\* longest instrument list the remote server returns to search_instruments
MaxInstruments == 12
\* longest list of positions / history items the remote server returns
MaxItems == 2

(***************************************************************************)
(* Strings.                                                                *)
(***************************************************************************)
Whitespace == {" ", "\t", "\n"}

Digits == {"0", "1", "2", "3", "4", "5", "6", "7", "8", "9"}

DigitVal == [c \in Digits |->
               CASE c = "0" -> 0 [] c = "1" -> 1 [] c = "2" -> 2 [] c = "3" -> 3
                 [] c = "4" -> 4 [] c = "5" -> 5 [] c = "6" -> 6 [] c = "7" -> 7
                 [] c = "8" -> 8 [] c = "9" -> 9]

LowerMap == [A |-> "a", B |-> "b", C |-> "c", D |-> "d", E |-> "e", F |-> "f",
             G |-> "g", H |-> "h", I |-> "i", J |-> "j", K |-> "k", L |-> "l",
             M |-> "m", N |-> "n", O |-> "o", P |-> "p", Q |-> "q", R |-> "r",
             S |-> "s", T |-> "t", U |-> "u", V |-> "v", W |-> "w", X |-> "x",
             Y |-> "y", Z |-> "z"]

UpperMap == [a |-> "A", b |-> "B", c |-> "C", d |-> "D", e |-> "E", f |-> "F",
             g |-> "G", h |-> "H", i |-> "I", j |-> "J", k |-> "K", l |-> "L",
             m |-> "M", n |-> "N", o |-> "O", p |-> "P", q |-> "Q", r |-> "R",
             s |-> "S", t |-> "T", u |-> "U", v |-> "V", w |-> "W", x |-> "X",
             y |-> "Y", z |-> "Z"]

\* str.lower()
Lower(s) == [k \in 1..Len(s) |-> IF s[k] \in DOMAIN LowerMap THEN LowerMap[s[k]] ELSE s[k]]

\* str.upper()
Upper(s) == [k \in 1..Len(s) |-> IF s[k] \in DOMAIN UpperMap THEN UpperMap[s[k]] ELSE s[k]]

RECURSIVE LStrip(_)
LStrip(s) == IF s # <<>> /\ Head(s) \in Whitespace THEN LStrip(Tail(s)) ELSE s

RECURSIVE RStrip(_)
RStrip(s) == IF s # <<>> /\ s[Len(s)] \in Whitespace
               THEN RStrip(SubSeq(s, 1, Len(s) - 1)) ELSE s

\* str.strip()
Strip(s) == RStrip(LStrip(s))

\* a blank test that forgets strip(): only the empty string is blank
Blank_unstripped(s) == s = <<>>

\* "not s.strip()": the blank test of every required input
Blank(s) == Strip(s) = <<>>

\* the value of an expression evaluated once: The({e(x) : x \in {v}})
The(S) == CHOOSE x \in S : TRUE

\* "a in b" on two strings
Contains(b, a) ==
  \E k \in 0..(Len(b) - Len(a)) : SubSeq(b, k + 1, k + Len(a)) = a

\* str.startswith
StartsWith(s, p) == Len(s) >= Len(p) /\ SubSeq(s, 1, Len(p)) = p

(***************************************************************************)
(* int() and float() on the strings of the input sets: blanks are          *)
(* stripped, one sign is allowed, int() takes digits only, float() digits  *)
(* with at most one point.  (Exponents, underscores, "inf" and "nan" are   *)
(* not in the input sets.)  A float is kept in hundredths.                 *)
(***************************************************************************)
Unsigned(s) == IF s # <<>> /\ Head(s) \in {"+", "-"} THEN Tail(s) ELSE s

Sign(s) == IF s # <<>> /\ Head(s) = "-" THEN -1 ELSE 1

AllDigits(s) == \A k \in 1..Len(s) : s[k] \in Digits

RECURSIVE DigitsValue(_)
DigitsValue(s) ==
  IF s = <<>> THEN 0
  ELSE DigitsValue(SubSeq(s, 1, Len(s) - 1)) * 10 + DigitVal[s[Len(s)]]

\* int(s) raises ValueError exactly when this is false
IntParses(s) ==
  LET u == Unsigned(Strip(s)) IN u # <<>> /\ AllDigits(u)

IntValue(s) == Sign(Strip(s)) * DigitsValue(Unsigned(Strip(s)))

PointAt(u) == IF \E k \in 1..Len(u) : u[k] = "."
                THEN CHOOSE k \in 1..Len(u) : u[k] = "." /\ \A j \in 1..(k - 1) : u[j] # "."
                ELSE Len(u) + 1

IntPart(u) == SubSeq(u, 1, PointAt(u) - 1)

FracPart(u) == SubSeq(u, PointAt(u) + 1, Len(u))

\* float(s) raises ValueError exactly when this is false
FloatParses(s) ==
  LET u == Unsigned(Strip(s)) IN
    /\ AllDigits(IntPart(u))
    /\ AllDigits(FracPart(u))
    /\ Len(IntPart(u)) + Len(FracPart(u)) > 0

\* the parsed value in hundredths (the input sets carry at most two decimals)
FloatValue(s) ==
  LET u == Unsigned(Strip(s))
      f == FracPart(u)
      f2 == IF Len(f) = 0 THEN <<"0", "0">>
            ELSE IF Len(f) = 1 THEN f \o <<"0">> ELSE SubSeq(f, 1, 2)
  IN Sign(Strip(s)) * (DigitsValue(IntPart(u)) * 100 + DigitsValue(f2))

(***************************************************************************)
(* Parsed JSON values (what response.json() returns) and the Python        *)
(* operations the tools apply to them.  An operation that raises yields a  *)
(* value of type "raise" naming the exception, and every operation passes  *)
(* a raise it is handed on.  Numbers are Python ints.                      *)
(***************************************************************************)
JNull == [ty |-> "null", n |-> 0, s |-> <<>>, items |-> <<>>, d |-> <<>>, exc |-> ""]

JNum(n) == [ty |-> "num", n |-> n, s |-> <<>>, items |-> <<>>, d |-> <<>>, exc |-> ""]

JStr(s) == [ty |-> "str", n |-> 0, s |-> s, items |-> <<>>, d |-> <<>>, exc |-> ""]

JList(items) == [ty |-> "list", n |-> 0, s |-> <<>>, items |-> items, d |-> <<>>, exc |-> ""]

\* d is a record: its DOMAIN is the set of keys the object has
JDict(d) == [ty |-> "dict", n |-> 0, s |-> <<>>, items |-> <<>>, d |-> d, exc |-> ""]

Raise(exc) == [ty |-> "raise", n |-> 0, s |-> <<>>, items |-> <<>>, d |-> <<>>, exc |-> exc]

\* the defaults of .get(key, default)
NA == JStr(<<"N", "/", "A">>)

Zero == JNum(0)

EmptyStr == JStr(<<>>)

EmptyList == JList(<<>>)

\* result.get(key, default): only a dict has .get
PyGet(v, key, default) ==
  CASE v.ty = "raise" -> v
    [] v.ty = "dict" -> IF key \in DOMAIN v.d THEN v.d[key] ELSE default
    [] OTHER -> Raise("AttributeError")

\* bool(v), as in "if not result" and "if limit_price"
Truthy(v) ==
  CASE v.ty = "null" -> FALSE
    [] v.ty = "num" -> v.n # 0
    [] v.ty = "str" -> v.s # <<>>
    [] v.ty = "list" -> v.items # <<>>
    [] v.ty = "dict" -> DOMAIN v.d # {}
    [] OTHER -> FALSE

RECURSIVE RepeatSeq(_, _)
RepeatSeq(q, n) == IF n <= 0 THEN <<>> ELSE q \o RepeatSeq(q, n - 1)

\* a * b
Mul(a, b) ==
  CASE a.ty = "raise" -> a
    [] b.ty = "raise" -> b
    [] a.ty = "num" /\ b.ty = "num" -> JNum(a.n * b.n)
    [] a.ty = "str" /\ b.ty = "num" -> JStr(RepeatSeq(a.s, b.n))
    [] a.ty = "num" /\ b.ty = "str" -> JStr(RepeatSeq(b.s, a.n))
    [] a.ty = "list" /\ b.ty = "num" -> JList(RepeatSeq(a.items, b.n))
    [] a.ty = "num" /\ b.ty = "list" -> JList(RepeatSeq(b.items, a.n))
    [] OTHER -> Raise("TypeError")

\* a + b, as in "total += amount"
Add(a, b) ==
  CASE a.ty = "raise" -> a
    [] b.ty = "raise" -> b
    [] a.ty = "num" /\ b.ty = "num" -> JNum(a.n + b.n)
    [] a.ty = "str" /\ b.ty = "str" -> JStr(a.s \o b.s)
    [] a.ty = "list" /\ b.ty = "list" -> JList(a.items \o b.items)
    [] OTHER -> Raise("TypeError")

\* iterating v in a for loop or a comprehension: the sequence of elements.
\* A str yields its characters, a dict its keys (strings as well).
Iterate(v) ==
  CASE v.ty = "raise" -> v
    [] v.ty = "list" -> v
    [] v.ty = "str" -> JList([k \in 1..Len(v.s) |-> JStr(<<v.s[k]>>)])
    [] v.ty = "dict" -> IF DOMAIN v.d = {} THEN EmptyList
                        ELSE JList(<<JStr(<<"k", "e", "y">>)>>)
    [] OTHER -> Raise("TypeError")

\* len(v)
PyLen(v) ==
  CASE v.ty = "raise" -> v
    [] v.ty = "list" -> JNum(Len(v.items))
    [] v.ty = "str" -> JNum(Len(v.s))
    [] v.ty = "dict" -> JNum(Cardinality(DOMAIN v.d))
    [] OTHER -> Raise("TypeError")

\* v.lower(): only a str has .lower
PyLower(v) ==
  CASE v.ty = "raise" -> v
    [] v.ty = "str" -> JStr(Lower(v.s))
    [] OTHER -> Raise("AttributeError")

\* the first raise among the values of q, or JNull when none raises
RECURSIVE FirstRaise(_)
FirstRaise(q) ==
  IF q = <<>> THEN JNull
  ELSE IF Head(q).ty = "raise" THEN Head(q) ELSE FirstRaise(Tail(q))

(***************************************************************************)
(* The return percentage of a position (get_portfolio line 166,            *)
(* get_position line 213):                                                 *)
(*   (ppl / (avg_price * quantity) * 100) if avg_price * quantity > 0      *)
(*   else 0                                                                *)
(* A percentage is kept as the exact fraction num / den.                   *)
(***************************************************************************)
Pct(num, den) == [ty |-> "pct", n |-> 0, s |-> <<>>, items |-> <<>>,
                  d |-> [num |-> num, den |-> den], exc |-> ""]

\* the percentage without its guard: the division is always made
ReturnPercent_unguarded(ppl, avg_price, quantity) ==
  The({CASE prod.ty = "raise" -> prod
         [] prod.ty # "num" \/ ppl.ty # "num" -> Raise("TypeError")
         [] prod.n = 0 -> Raise("ZeroDivisionError")
         [] OTHER -> Pct(ppl.n * 100, prod.n) :
       prod \in {Mul(avg_price, quantity)}})

ReturnPercent(ppl, avg_price, quantity) ==
  The({CASE prod.ty = "raise" -> prod
         [] prod.ty # "num" -> Raise("TypeError")     \* str > 0, list > 0
         [] prod.n > 0 -> IF ppl.ty = "num" THEN Pct(ppl.n * 100, prod.n)
                          ELSE Raise("TypeError")     \* None / int, str / int
         [] OTHER -> Pct(0, 1) :
       prod \in {Mul(avg_price, quantity)}})

(***************************************************************************)
(* Configuration: read once from the process environment at import time.   *)
(***************************************************************************)
Unset == [set |-> FALSE, val |-> <<>>]

SetTo(val) == [set |-> TRUE, val |-> val]

\* os.environ.get(name, default)
EnvironGet(var, default) == IF var.set THEN var.val ELSE default

\* the process environments the server is started in
Environments ==
  [TRADING212_API_KEY : {Unset, SetTo(<<"k">>)},
   TRADING212_API_SECRET : {Unset, SetTo(<<>>), SetTo(<<"s">>)},
   TRADING212_ENVIRONMENT : {Unset, SetTo(<<"l", "i", "v", "e">>),
                             SetTo(<<"L", "I", "V", "E">>), SetTo(<<"L", "i", "v", "e">>),
                             SetTo(<<"d", "e", "m", "o">>), SetTo(<<>>)}]

DEMO_BASE_URL == "https://demo.trading212.com/api/v0"

LIVE_BASE_URL == "https://live.trading212.com/api/v0"

\* the selection without lower(): only the exact spelling "live" is live
get_base_url_exact ==
  IF ENVIRONMENT = <<"l", "i", "v", "e">> THEN LIVE_BASE_URL ELSE DEMO_BASE_URL

get_base_url ==
  IF Lower(ENVIRONMENT) = <<"l", "i", "v", "e">> THEN LIVE_BASE_URL ELSE DEMO_BASE_URL

\* "not API_KEY or not API_SECRET"
NoCredentials == API_KEY = <<>> \/ API_SECRET = <<>>

get_auth_header ==
  IF NoCredentials THEN <<>>
  ELSE <<"Basic", API_KEY \o <<":">> \o API_SECRET>>

(***************************************************************************)
(* Display texts.  A text is its leading glyph (lead), its fixed wording   *)
(* (msg) and what is interpolated into it: an input string (arg), a        *)
(* status code (code), a message of the remote server or of an exception   *)
(* (detail), the rendered entries (rows), the "... and N more results"     *)
(* note (moreShown, more), and the "Environment: ..." line (envShown, env).*)
(***************************************************************************)
FAIL == "[X]"

Text(lead, msg) ==
  [lead |-> lead, msg |-> msg, arg |-> <<>>, code |-> -1, detail |-> "",
   rows |-> <<>>, moreShown |-> FALSE, more |-> 0, envShown |-> FALSE, env |-> <<>>]

NoText == Text("", "")

\* f"... Environment: {ENVIRONMENT.upper()}"
WithEnvironment(t) == [t EXCEPT !.envShown = TRUE, !.env = Upper(ENVIRONMENT)]

NotConfiguredText == Text(FAIL, "Error: API_KEY and API_SECRET environment variables not set")

\* f"[X] Error: {str(e)}"
ErrorText(exc) == [Text(FAIL, "Error: ") EXCEPT !.detail = exc]

\* result.startswith(FAIL) on a text
TextStartsWithFail(t) == t.lead = FAIL

(***************************************************************************)
(* make_request.  Its value is a text (an error) or the parsed JSON body.  *)
(***************************************************************************)
BText(t) == [isText |-> TRUE, text |-> t, json |-> JNull]

BJson(j) == [isText |-> FALSE, text |-> NoText, json |-> j]

NoBody == [ticker |-> <<>>, quantity |-> 0, priceKey |-> "", price |-> 0, timeValidity |-> <<>>]

NoRequest == [method |-> "", url |-> "", path |-> "", param |-> <<>>, limit |-> -1,
              ticker |-> <<>>, auth |-> <<>>, body |-> NoBody]

\* the endpoint string a tool builds
Endpoint(path, param, limit, ticker) ==
  [path |-> path, param |-> param, limit |-> limit, ticker |-> ticker]

\* the remote outcome of one call
Transport(exc) ==
  [kind |-> "transport", status |-> 0, text |-> exc, isJson |-> FALSE, json |-> JNull]

HttpText(status, text) ==
  [kind |-> "http", status |-> status, text |-> text, isJson |-> FALSE, json |-> JNull]

HttpJson(status, json) ==
  [kind |-> "http", status |-> status, text |-> "json", isJson |-> TRUE, json |-> json]

NoOutcome == Transport("")

\* make_request without its credentials test: the request is sent regardless
make_request_send_unchecked(method, endpoint, body) ==
  [sent |-> TRUE,
   request |-> [method |-> method, url |-> get_base_url, path |-> endpoint.path,
                param |-> endpoint.param, limit |-> endpoint.limit,
                ticker |-> endpoint.ticker, auth |-> get_auth_header,
                body |-> IF method \in {"POST", "PUT"} THEN body ELSE NoBody],
   result |-> BJson(JNull)]

\* lines 56-83: up to the await of client.get / post / delete / put
make_request_send(method, endpoint, body) ==
  IF NoCredentials THEN [sent |-> FALSE, request |-> NoRequest, result |-> BText(NotConfiguredText)]
  ELSE IF method \notin {"GET", "POST", "DELETE", "PUT"}
    THEN [sent |-> FALSE, request |-> NoRequest,
          result |-> BText([Text(FAIL, "Error: Unsupported method") EXCEPT !.detail = method])]
  ELSE [sent |-> TRUE,
        request |-> [method |-> method, url |-> get_base_url, path |-> endpoint.path,
                     param |-> endpoint.param, limit |-> endpoint.limit,
                     ticker |-> endpoint.ticker, auth |-> get_auth_header,
                     body |-> IF method \in {"POST", "PUT"} THEN body ELSE NoBody],
        result |-> BJson(JNull)]

\* response.is_success, which raise_for_status tests
IsSuccess(status) == 200 <= status /\ status <= 299

\* an HTTPStatusError handler that reports the body without the status code
ApiErrorText_uncoded(o) == ErrorText(o.text)

\* the HTTPStatusError handler, lines 87-89
ApiErrorText(o) ==
  [Text(FAIL, "API Error") EXCEPT !.code = o.status,
                                  !.detail = IF o.text # "" THEN o.text ELSE "str(e)"]

\* lines 85-91: from the response (or the transport's exception) to the return
make_request_recv(o) ==
  CASE o.kind = "transport" -> BText(ErrorText(o.text))
    [] o.kind = "http" /\ ~IsSuccess(o.status) -> BText(ApiErrorText(o))
    [] o.kind = "http" /\ IsSuccess(o.status) /\ ~o.isJson -> BText(ErrorText("JSONDecodeError"))
    [] OTHER -> BJson(o.json)

\* "isinstance(result, str) and result.startswith(FAIL)"
IsFailureResult(r) ==
  \/ r.isText /\ TextStartsWithFail(r.text)
  \/ ~r.isText /\ r.json.ty = "str" /\ StartsWith(r.json.s, <<FAIL>>)

\* "return result" when the test above holds
ResultText(r) ==
  IF r.isText THEN r.text
  ELSE [Text(Head(r.json.s), "(string sent by the remote server)") EXCEPT !.arg = Tail(r.json.s)]

(***************************************************************************)
(* The try / except of a tool: a formatter's value is a text, or a raise   *)
(* that the tool's handlers turn into a text.                              *)
(***************************************************************************)
Ok(t) == [raised |-> FALSE, exc |-> "", text |-> t]

Raised(exc) == [raised |-> TRUE, exc |-> exc, text |-> NoText]

\* a tool without "except Exception": a raise leaves it, no text is returned
Catch_nothing(f) == f.text

\* "except Exception as e: return f'[X] Error: {str(e)}'"
Catch(f) == IF f.raised THEN ErrorText(f.exc) ELSE f.text

\* "except ValueError: return <invalid>" before "except Exception"
CatchValueError(f, invalid) ==
  IF f.raised /\ f.exc = "ValueError" THEN invalid ELSE Catch(f)

(***************************************************************************)
(* format_currency: "$" and two decimals when float(value) succeeds, else  *)
(* str(value).  An amount is kept in hundredths.                           *)
(***************************************************************************)
Money(n) == [ty |-> "money", n |-> n, s |-> <<>>, items |-> <<>>, d |-> <<>>, exc |-> ""]

format_currency(value) ==
  CASE value.ty = "num" -> Money(value.n * 100)
    [] value.ty = "str" /\ FloatParses(value.s) -> Money(FloatValue(value.s))
    [] OTHER -> value

\* one rendered entry of a text; f is a record of the values shown
Row(f) == [ty |-> "row", n |-> 0, s |-> <<>>, items |-> <<>>, d |-> f, exc |-> ""]

\* a[:n] on a list or a str; anything else cannot be sliced
Slice(v, n) ==
  CASE v.ty = "raise" -> v
    [] v.ty = "list" -> JList(SubSeq(v.items, 1, IF Len(v.items) < n THEN Len(v.items) ELSE n))
    [] v.ty = "str" -> JStr(SubSeq(v.s, 1, IF Len(v.s) < n THEN Len(v.s) ELSE n))
    [] OTHER -> Raise("TypeError")

\* a text whose rows are the list rs, or the raise rs is
TextOfRows(rs, t) ==
  The({IF r.ty = "raise" THEN Raised(r.exc) ELSE Ok([t EXCEPT !.rows = r.items]) : r \in {rs}})

(***************************************************************************)
(* The body of each "for x in ...:" loop of the tools: the entry rendered  *)
(* for one element, or the exception its evaluation raises.                *)
(***************************************************************************)
\* lines 161-174: one position of the portfolio
PortfolioRow(position) ==
  LET ticker == PyGet(position, "ticker", NA)
      quantity == PyGet(position, "quantity", Zero)
      avg_price == PyGet(position, "averagePrice", Zero)
      current_price == PyGet(position, "currentPrice", Zero)
      ppl == PyGet(position, "ppl", Zero)
      ppl_percent == ReturnPercent(ppl, avg_price, quantity)
  IN IF ticker.ty = "raise" THEN ticker
     ELSE IF ppl_percent.ty = "raise" THEN ppl_percent
     ELSE Row([ticker |-> ticker, quantity |-> quantity,
               avg_price |-> format_currency(avg_price),
               current_price |-> format_currency(current_price),
               ppl |-> format_currency(ppl), ppl_percent |-> ppl_percent])

\* line 248: one working schedule of an exchange
ScheduleRow(schedule) ==
  LET openTime == PyGet(schedule, "openTime", NA)
  IN IF openTime.ty = "raise" THEN openTime
     ELSE Row([openTime |-> openTime, closeTime |-> PyGet(schedule, "closeTime", NA)])

\* lines 245-248: "if working_schedules: for schedule in working_schedules[:3]"
ScheduleRows(working_schedules) ==
  IF ~Truthy(working_schedules) THEN EmptyList
  ELSE The({IF it.ty = "raise" THEN it
            ELSE The({IF FirstRaise(rs).ty = "raise" THEN FirstRaise(rs) ELSE JList(rs) :
                      rs \in {[k \in 1..Len(it.items) |-> ScheduleRow(it.items[k])]}}) :
            it \in {Iterate(Slice(working_schedules, 3))}})

\* lines 240-249: one exchange
ExchangeRow(exchange) ==
  LET name == PyGet(exchange, "name", NA)
  IN IF name.ty = "raise" THEN name
     ELSE The({IF hours.ty = "raise" THEN hours
               ELSE Row([name |-> name, id |-> PyGet(exchange, "id", NA),
                         hours |-> hours.items]) :
               hours \in {The({ScheduleRows(ws) :
                                ws \in {PyGet(exchange, "workingSchedules", EmptyList)}})}})

\* lines 281-287: one instrument shown by search_instruments
InstrumentRow(inst) ==
  LET ticker == PyGet(inst, "ticker", NA)
  IN IF ticker.ty = "raise" THEN ticker
     ELSE Row([ticker |-> ticker, name |-> PyGet(inst, "name", NA),
               currency |-> PyGet(inst, "currencyCode", NA),
               type |-> PyGet(inst, "type", NA)])

\* lines 312-332: one active order
ActiveOrderRow(order) ==
  LET order_id == PyGet(order, "id", NA)
      limit_price == PyGet(order, "limitPrice", Zero)
      stop_price == PyGet(order, "stopPrice", Zero)
  IN IF order_id.ty = "raise" THEN order_id
     ELSE Row([id |-> order_id, ticker |-> PyGet(order, "ticker", NA),
               type |-> PyGet(order, "type", NA),
               quantity |-> PyGet(order, "quantity", Zero),
               status |-> PyGet(order, "status", NA),
               limitShown |-> Truthy(limit_price),
               limit_price |-> format_currency(limit_price),
               stopShown |-> Truthy(stop_price),
               stop_price |-> format_currency(stop_price),
               created |-> PyGet(order, "createdOn", NA)])

\* lines 562-577: one historical order
HistoryOrderRow(order) ==
  LET order_id == PyGet(order, "id", NA)
      fill_price == PyGet(order, "fillPrice", Zero)
  IN IF order_id.ty = "raise" THEN order_id
     ELSE Row([id |-> order_id, ticker |-> PyGet(order, "ticker", NA),
               type |-> PyGet(order, "type", NA),
               quantity |-> PyGet(order, "filledQuantity", PyGet(order, "quantity", Zero)),
               fill_price |-> IF Truthy(fill_price) THEN format_currency(fill_price) ELSE NA,
               status |-> PyGet(order, "status", NA),
               created |-> PyGet(order, "dateCreated", NA)])

\* lines 608-622: one dividend; "total += amount" is DividendTotal below
DividendRow(dividend) ==
  LET ticker_val == PyGet(dividend, "ticker", NA)
  IN IF ticker_val.ty = "raise" THEN ticker_val
     ELSE Row([ticker |-> ticker_val,
               amount |-> format_currency(PyGet(dividend, "amount", Zero)),
               amountRaw |-> PyGet(dividend, "amount", Zero),
               quantity |-> PyGet(dividend, "quantity", Zero),
               type |-> PyGet(dividend, "type", NA),
               paid_on |-> PyGet(dividend, "paidOn", NA)])

\* lines 608-622: the loop body is the row and then "total += amount"; the
\* total is an int whenever the body starts, so the sum raises as 0 + amount does
DividendBody(dividend) ==
  The({IF r.ty = "raise" THEN r
       ELSE IF Add(Zero, r.d.amountRaw).ty = "raise" THEN Raise("TypeError") ELSE r :
       r \in {DividendRow(dividend)}})

\* lines 651-661: one transaction
TransactionRow(transaction) ==
  LET trans_type == PyGet(transaction, "type", NA)
  IN IF trans_type.ty = "raise" THEN trans_type
     ELSE Row([type |-> trans_type,
               amount |-> format_currency(PyGet(transaction, "amount", Zero)),
               date_time |-> PyGet(transaction, "dateTime", NA),
               reference |-> PyGet(transaction, "reference", NA)])

\* lines 685-698: one pie of the list
PieRow(pie) ==
  LET pie_id == PyGet(pie, "id", NA)
      instruments_count == PyLen(PyGet(pie, "instruments", EmptyList))
  IN IF pie_id.ty = "raise" THEN pie_id
     ELSE IF instruments_count.ty = "raise" THEN instruments_count
     ELSE Row([id |-> pie_id, name |-> PyGet(pie, "name", NA),
               status |-> PyGet(pie, "status", NA),
               instruments_count |-> instruments_count,
               goal |-> format_currency(PyGet(pie, "goal", Zero)),
               result |-> format_currency(PyGet(pie, "result", Zero))])

\* lines 742-745: one holding of a pie
HoldingRow(inst) ==
  LET ticker == PyGet(inst, "ticker", NA)
  IN IF ticker.ty = "raise" THEN ticker
     ELSE Row([ticker |-> ticker, shares |-> PyGet(inst, "shares", Zero),
               expected_share |-> PyGet(inst, "expectedShare", Zero)])

RowOf(loop, x) ==
  CASE loop = "get_portfolio" -> PortfolioRow(x)
    [] loop = "list_exchanges" -> ExchangeRow(x)
    [] loop = "search_instruments" -> InstrumentRow(x)
    [] loop = "get_active_orders" -> ActiveOrderRow(x)
    [] loop = "get_order_history" -> HistoryOrderRow(x)
    [] loop = "get_dividends" -> DividendBody(x)
    [] loop = "get_transactions" -> TransactionRow(x)
    [] loop = "list_pies" -> PieRow(x)
    [] loop = "get_pie" -> HoldingRow(x)

\* "for x in v: <body>": v is iterated in order, and the first element whose
\* body raises ends the loop with its exception
Rows(v, loop) ==
  The({IF it.ty = "raise" THEN it
       ELSE The({IF FirstRaise(rs).ty = "raise" THEN FirstRaise(rs) ELSE JList(rs) :
                 rs \in {[k \in 1..Len(it.items) |-> RowOf(loop, it.items[k])]}}) :
       it \in {Iterate(v)}})

(***************************************************************************)
(* The tools after make_request has returned a parsed payload: the lines   *)
(* from the failure test of each tool to its return.                       *)
(***************************************************************************)
\* lines 112-117
get_account_info_format(result) ==
  LET row == Row([id |-> PyGet(result, "id", NA),
                  currencyCode |-> PyGet(result, "currencyCode", NA),
                  cash |-> format_currency(PyGet(result, "cash", Zero))])
  IN IF PyGet(result, "id", NA).ty = "raise" THEN Raised("AttributeError")
     ELSE Ok(WithEnvironment([Text("[chart]", "Account Information:") EXCEPT !.rows = <<row>>]))

\* lines 132-141
get_account_cash_format(result) ==
  LET row == Row([free |-> format_currency(PyGet(result, "free", Zero)),
                  invested |-> format_currency(PyGet(result, "invested", Zero)),
                  ppl |-> format_currency(PyGet(result, "ppl", Zero)),
                  result |-> format_currency(PyGet(result, "result", Zero)),
                  total |-> format_currency(PyGet(result, "total", Zero)),
                  blocked |-> format_currency(PyGet(result, "blocked", Zero)),
                  pieppl |-> format_currency(PyGet(result, "pieppl", Zero))])
  IN IF PyGet(result, "free", Zero).ty = "raise" THEN Raised("AttributeError")
     ELSE Ok(WithEnvironment([Text("[money]", "Cash Balance:") EXCEPT !.rows = <<row>>]))

\* lines 156-176
get_portfolio_format(result) ==
  IF ~Truthy(result) THEN Ok(Text("[chart]", "Portfolio is empty"))
  ELSE TextOfRows(Rows(result, "get_portfolio"),
                  WithEnvironment(Text("[chart]", "Portfolio Positions:")))

\* lines 194-220
get_position_format(result) ==
  LET ticker_name == PyGet(result, "ticker", NA)
      quantity == PyGet(result, "quantity", Zero)
      avg_price == PyGet(result, "averagePrice", Zero)
      current_price == PyGet(result, "currentPrice", Zero)
      ppl == PyGet(result, "ppl", Zero)
      total_value == Mul(quantity, current_price)
      return_percent == ReturnPercent(ppl, avg_price, quantity)
      row == Row([ticker |-> ticker_name, quantity |-> quantity,
                  avg_price |-> format_currency(avg_price),
                  current_price |-> format_currency(current_price),
                  total_value |-> format_currency(total_value),
                  ppl |-> format_currency(ppl), ppl_percent |-> return_percent,
                  initial_fill_date |-> PyGet(result, "initialFillDate", NA),
                  max_buy |-> PyGet(result, "maxBuy", Zero),
                  max_sell |-> PyGet(result, "maxSell", Zero)])
      bad == FirstRaise(<<ticker_name, total_value, return_percent>>)
  IN IF bad.ty = "raise" THEN Raised(bad.exc)
     ELSE Ok(WithEnvironment([Text("[up]", "Position Details:") EXCEPT !.rows = <<row>>]))

\* lines 235-251: the text ends without the environment line
list_exchanges_format(result) ==
  IF ~Truthy(result) THEN Ok(Text("[chart]", "No exchanges found"))
  ELSE TextOfRows(Rows(result, "list_exchanges"), Text("[globe]", "Available Exchanges:"))

\* the number of search results displayed, line 280
SEARCH_DISPLAY_CAP == 10

\* a filter that looks at the ticker only
InstrumentMatches_ticker(inst, query_lower) ==
  LET ticker == PyLower(PyGet(inst, "ticker", EmptyStr))
  IN CASE ticker.ty = "raise" -> ticker
       [] Contains(ticker.s, query_lower) -> JNum(1)
       [] OTHER -> JNum(0)

\* lines 272-273: "query_lower in inst.get('ticker', '').lower() or
\*                 query_lower in inst.get('name', '').lower()"
\* JNum(1) for a match, JNum(0) for none, or the exception raised
InstrumentMatches(inst, query_lower) ==
  LET ticker == PyLower(PyGet(inst, "ticker", EmptyStr))
      name == PyLower(PyGet(inst, "name", EmptyStr))
  IN CASE ticker.ty = "raise" -> ticker
       [] Contains(ticker.s, query_lower) -> JNum(1)
       [] name.ty = "raise" -> name
       [] Contains(name.s, query_lower) -> JNum(1)
       [] OTHER -> JNum(0)

\* lines 270-274: the list comprehension
SearchMatches(result, query) ==
  The({IF it.ty = "raise" THEN it
       ELSE The({IF FirstRaise(flags).ty = "raise" THEN FirstRaise(flags)
                 ELSE JList(SelectSeq(it.items,
                                      LAMBDA x : InstrumentMatches(x, Lower(query)).n = 1)) :
                 flags \in {[k \in 1..Len(it.items) |->
                                InstrumentMatches(it.items[k], Lower(query))]}}) :
       it \in {Iterate(result)}})

\* lines 269-292: the texts end without the environment line
search_instruments_format(query, result) ==
  The({IF matches.ty = "raise" THEN Raised(matches.exc)
       ELSE IF ~Truthy(matches)
         THEN Ok([Text("[search]", "No instruments found matching") EXCEPT !.arg = query])
       ELSE LET t == [Text("[search]", "Search Results for") EXCEPT !.arg = query]
            IN TextOfRows(Rows(Slice(matches, SEARCH_DISPLAY_CAP), "search_instruments"),
                          IF Len(matches.items) > SEARCH_DISPLAY_CAP
                            THEN [t EXCEPT !.moreShown = TRUE,
                                           !.more = Len(matches.items) - SEARCH_DISPLAY_CAP]
                            ELSE t) :
       matches \in {SearchMatches(result, query)}})

\* lines 307-334
get_active_orders_format(result) ==
  IF ~Truthy(result) THEN Ok(Text("[clip]", "No active orders"))
  ELSE TextOfRows(Rows(result, "get_active_orders"),
                  WithEnvironment(Text("[clip]", "Active Orders:")))

\* lines 352-382
get_order_format(result) ==
  LET order_id_val == PyGet(result, "id", NA)
      limit_price == PyGet(result, "limitPrice", Zero)
      stop_price == PyGet(result, "stopPrice", Zero)
      row == Row([id |-> order_id_val, ticker |-> PyGet(result, "ticker", NA),
                  type |-> PyGet(result, "type", NA),
                  status |-> PyGet(result, "status", NA),
                  quantity |-> PyGet(result, "quantity", Zero),
                  filled_quantity |-> PyGet(result, "filledQuantity", Zero),
                  limitShown |-> Truthy(limit_price),
                  limit_price |-> format_currency(limit_price),
                  stopShown |-> Truthy(stop_price),
                  stop_price |-> format_currency(stop_price),
                  created |-> PyGet(result, "createdOn", NA)])
  IN IF order_id_val.ty = "raise" THEN Raised(order_id_val.exc)
     ELSE Ok(WithEnvironment([Text("[clip]", "Order Details:") EXCEPT !.rows = <<row>>]))

\* lines 410-421, 456-468, 503-515: the three "Order Placed" texts
order_placed_format(msg, priceKey, ticker, quantity_float, price_float, time_validity, result) ==
  LET order_id == PyGet(result, "id", NA)
      row == Row([id |-> order_id, ticker |-> JStr(ticker),
                  quantity |-> Money(quantity_float),
                  priceKey |-> priceKey,
                  price |-> Money(price_float),
                  time_validity |-> JStr(time_validity),
                  status |-> PyGet(result, "status", NA)])
  IN IF order_id.ty = "raise" THEN Raised(order_id.exc)
     ELSE Ok(WithEnvironment([Text("[ok]", msg) EXCEPT !.rows = <<row>>]))

\* line 536: whatever the parsed payload is
cancel_order_format(order_id, result) ==
  Ok(WithEnvironment([Text("[ok]", "Order cancelled successfully") EXCEPT !.arg = order_id]))

\* lines 557-579
get_order_history_format(result) ==
  LET items == PyGet(result, "items", JNull) IN
    IF ~Truthy(result) THEN Ok(Text("[clip]", "No order history found"))
    ELSE IF items.ty = "raise" THEN Raised(items.exc)
    ELSE IF ~Truthy(items) THEN Ok(Text("[clip]", "No order history found"))
    ELSE TextOfRows(Rows(PyGet(result, "items", EmptyList), "get_order_history"),
                    WithEnvironment(Text("[clip]", "Order History:")))

\* lines 606, 622: "total = 0" and "total += amount" over the rendered dividends
RECURSIVE DividendTotal(_)
DividendTotal(rows) ==
  IF rows = <<>> THEN Zero
  ELSE Add(DividendTotal(SubSeq(rows, 1, Len(rows) - 1)), rows[Len(rows)].d.amountRaw)

\* lines 602-627
get_dividends_format(result) ==
  LET items == PyGet(result, "items", JNull) IN
    IF ~Truthy(result) THEN Ok(Text("[money]", "No dividend history found"))
    ELSE IF items.ty = "raise" THEN Raised(items.exc)
    ELSE IF ~Truthy(items) THEN Ok(Text("[money]", "No dividend history found"))
    ELSE The({IF rs.ty = "raise" THEN Raised(rs.exc)
              ELSE Ok(WithEnvironment(
                     [Text("[money]", "Dividend History:") EXCEPT
                        !.rows = Append(rs.items,
                                        Row([total |->
                                               format_currency(DividendTotal(rs.items))]))])) :
              rs \in {Rows(PyGet(result, "items", EmptyList), "get_dividends")}})

\* lines 646-663
get_transactions_format(result) ==
  LET items == PyGet(result, "items", JNull) IN
    IF ~Truthy(result) THEN Ok(Text("[chart]", "No transactions found"))
    ELSE IF items.ty = "raise" THEN Raised(items.exc)
    ELSE IF ~Truthy(items) THEN Ok(Text("[chart]", "No transactions found"))
    ELSE TextOfRows(Rows(PyGet(result, "items", EmptyList), "get_transactions"),
                    WithEnvironment(Text("[chart]", "Recent Transactions:")))

\* lines 680-700
list_pies_format(result) ==
  IF ~Truthy(result) THEN Ok(Text("[pie]", "No pies found"))
  ELSE TextOfRows(Rows(result, "list_pies"), WithEnvironment(Text("[pie]", "Investment Pies:")))

\* lines 718-749
get_pie_format(result) ==
  LET pie_id_val == PyGet(result, "id", NA)
      instruments == PyGet(result, "instruments", EmptyList)
      row == Row([id |-> pie_id_val, name |-> PyGet(result, "name", NA),
                  status |-> PyGet(result, "status", NA),
                  goal |-> format_currency(PyGet(result, "goal", Zero)),
                  result |-> format_currency(PyGet(result, "result", Zero)),
                  cash |-> format_currency(PyGet(result, "cash", Zero)),
                  dividend_action |-> PyGet(result, "dividendCashAction", NA),
                  count |-> PyLen(instruments)])
  IN The({IF FirstRaise(<<pie_id_val, PyLen(instruments), holdings>>).ty = "raise"
            THEN Raised(FirstRaise(<<pie_id_val, PyLen(instruments), holdings>>).exc)
            ELSE Ok(WithEnvironment([Text("[pie]", "Pie Details:") EXCEPT
                                       !.rows = <<row>> \o holdings.items])) :
          holdings \in {Rows(instruments, "get_pie")}})

(***************************************************************************)
(* One invocation: the tool it runs (op), its inputs (args), the arguments *)
(* it calls make_request with (call), the request make_request has sent    *)
(* (request; calls counts the outbound calls of this invocation), the      *)
(* remote outcome (resp), and the text the tool returns (result).          *)
(* pc: "idle", "calling" (the tool has called make_request), "awaiting"    *)
(* (make_request awaits the HTTP response), "done" (the tool has returned).*)
(***************************************************************************)
DAY == <<"D", "A", "Y">>

FIFTY == <<"5", "0">>

\* the parameters of the tools with the defaults of their signatures
NoArgs == [ticker |-> <<>>, quantity |-> <<>>, limit_price |-> <<>>, stop_price |-> <<>>,
           time_validity |-> DAY, order_id |-> <<>>, pie_id |-> <<>>, query |-> <<>>,
           limit |-> FIFTY]

\* the arguments of a call of make_request
Call(method, endpoint, body) == [method |-> method, endpoint |-> endpoint, body |-> body]

NoCall == Call("", Endpoint("", <<>>, -1, <<>>), NoBody)

IdleSlot == [pc |-> "idle", op |-> "", args |-> NoArgs, call |-> NoCall, request |-> NoRequest,
             calls |-> 0, resp |-> NoOutcome, result |-> NoText]

\* the cap of the history limit and the limit of a blank input, lines 547, 592, 640
HISTORY_LIMIT_CAP == 50

DEFAULT_LIMIT == 50

\* "min(int(limit) if limit.strip() else 50, 50)"; int() raises when ~LimitParses
LimitParses(limit) == Blank(limit) \/ IntParses(limit)

\* the limit without min(..., 50)
LimitInt_uncapped(limit) == IF ~Blank(limit) THEN IntValue(limit) ELSE DEFAULT_LIMIT

LimitInt(limit) ==
  LET v == IF ~Blank(limit) THEN IntValue(limit) ELSE DEFAULT_LIMIT
  IN IF v < HISTORY_LIMIT_CAP THEN v ELSE HISTORY_LIMIT_CAP

\* the texts of the "except ValueError" handlers, lines 423, 470, 517, 581, 629, 665
InvalidText(op, args) ==
  CASE op = "place_market_order" ->
         [Text(FAIL, "Error: Invalid quantity value:") EXCEPT !.arg = args.quantity]
    [] op \in {"place_limit_order", "place_stop_order"} ->
         Text(FAIL, "Error: Invalid numeric value")
    [] OTHER -> [Text(FAIL, "Error: Invalid limit value:") EXCEPT !.arg = args.limit]

ValueErrorTools == {"place_market_order", "place_limit_order", "place_stop_order",
                    "get_order_history", "get_dividends", "get_transactions"}

\* the formatting part of each tool
Format(op, args, result) ==
  CASE op = "get_account_info" -> get_account_info_format(result)
    [] op = "get_account_cash" -> get_account_cash_format(result)
    [] op = "get_portfolio" -> get_portfolio_format(result)
    [] op = "get_position" -> get_position_format(result)
    [] op = "list_exchanges" -> list_exchanges_format(result)
    [] op = "search_instruments" -> search_instruments_format(args.query, result)
    [] op = "get_active_orders" -> get_active_orders_format(result)
    [] op = "get_order" -> get_order_format(result)
    [] op = "place_market_order" ->
         order_placed_format("Market Order Placed:", "", args.ticker,
                             FloatValue(args.quantity), 0, <<>>, result)
    [] op = "place_limit_order" ->
         order_placed_format("Limit Order Placed:", "limitPrice", args.ticker,
                             FloatValue(args.quantity), FloatValue(args.limit_price),
                             args.time_validity, result)
    [] op = "place_stop_order" ->
         order_placed_format("Stop Order Placed:", "stopPrice", args.ticker,
                             FloatValue(args.quantity), FloatValue(args.stop_price),
                             args.time_validity, result)
    [] op = "cancel_order" -> cancel_order_format(args.order_id, result)
    [] op = "get_order_history" -> get_order_history_format(result)
    [] op = "get_dividends" -> get_dividends_format(result)
    [] op = "get_transactions" -> get_transactions_format(result)
    [] op = "list_pies" -> list_pies_format(result)
    [] op = "get_pie" -> get_pie_format(result)

\* the except clauses of a tool, applied to the value f of its formatting part
Handlers(op, args, f) ==
  IF op \in ValueErrorTools THEN CatchValueError(f, InvalidText(op, args)) ELSE Catch(f)

\* the try block after the failure test: the payload is formatted (once), and
\* the except clauses turn an exception into a text
TryFormat(op, args, result) ==
  CHOOSE t \in {Handlers(op, args, f) : f \in {Format(op, args, result)}} : TRUE

\* a tool from the return of make_request (r) to its own return: the failure
\* test, the formatting, and the except clauses
ToolFinish(op, args, r) ==
  IF IsFailureResult(r) THEN ResultText(r) ELSE TryFormat(op, args, r.json)

\* a tool that returns before it calls make_request
Returned(op, args, text) ==
  [pc |-> "done", op |-> op, args |-> args, call |-> NoCall, request |-> NoRequest,
   calls |-> 0, resp |-> NoOutcome, result |-> text]

\* "result = await make_request(method, endpoint, data)"
Start(op, args, method, endpoint, body) ==
  [pc |-> "calling", op |-> op, args |-> args, call |-> Call(method, endpoint, body),
   request |-> NoRequest, calls |-> 0, resp |-> NoOutcome, result |-> NoText]

\* make_request up to its await: it sends the one request and suspends the
\* tool, or returns a text without sending, and the tool runs to its return
Send(slot) ==
  CHOOSE next \in
    {IF m.sent
       THEN [slot EXCEPT !.pc = "awaiting", !.request = m.request, !.calls = @ + 1]
       ELSE [slot EXCEPT !.pc = "done",
                         !.result = ToolFinish(slot.op, slot.args, m.result)] :
     m \in {make_request_send(slot.call.method, slot.call.endpoint, slot.call.body)}} : TRUE

\* a tool with a retry policy: after a failed call it calls make_request again
Resume_retry(slot, o) ==
  IF o.kind = "transport" \/ ~IsSuccess(o.status)
    THEN [slot EXCEPT !.pc = "calling", !.resp = o]
    ELSE [slot EXCEPT !.pc = "done", !.resp = o,
                      !.result = CHOOSE t \in {ToolFinish(slot.op, slot.args, r) :
                                                 r \in {make_request_recv(o)}} : TRUE]

\* the awaited call ends with outcome o: make_request returns, and the tool
\* runs to its return
Resume(slot, o) ==
  [slot EXCEPT !.pc = "done", !.resp = o,
               !.result = CHOOSE t \in {ToolFinish(slot.op, slot.args, r) :
                                          r \in {make_request_recv(o)}} : TRUE]

RequiredText(what) == Text(FAIL, what)

(***************************************************************************)
(* The tools from their entry to their call of make_request.               *)
(***************************************************************************)
get_account_info_enter ==
  Start("get_account_info", NoArgs, "GET", Endpoint("/equity/account/info", <<>>, -1, <<>>), NoBody)

get_account_cash_enter ==
  Start("get_account_cash", NoArgs, "GET", Endpoint("/equity/account/cash", <<>>, -1, <<>>), NoBody)

get_portfolio_enter ==
  Start("get_portfolio", NoArgs, "GET", Endpoint("/equity/portfolio", <<>>, -1, <<>>), NoBody)

get_position_enter(ticker) ==
  LET args == [NoArgs EXCEPT !.ticker = ticker] IN
    IF Blank(ticker)
      THEN Returned("get_position", args, RequiredText("Error: Ticker symbol is required"))
      ELSE Start("get_position", args, "GET",
                 Endpoint("/equity/portfolio/{ticker}", ticker, -1, <<>>), NoBody)

list_exchanges_enter ==
  Start("list_exchanges", NoArgs, "GET",
        Endpoint("/equity/metadata/exchanges", <<>>, -1, <<>>), NoBody)

search_instruments_enter(query) ==
  LET args == [NoArgs EXCEPT !.query = query] IN
    IF Blank(query)
      THEN Returned("search_instruments", args, RequiredText("Error: Search query is required"))
      ELSE Start("search_instruments", args, "GET",
                 Endpoint("/equity/metadata/instruments", <<>>, -1, <<>>), NoBody)

get_active_orders_enter ==
  Start("get_active_orders", NoArgs, "GET", Endpoint("/equity/orders", <<>>, -1, <<>>), NoBody)

get_order_enter(order_id) ==
  LET args == [NoArgs EXCEPT !.order_id = order_id] IN
    IF Blank(order_id)
      THEN Returned("get_order", args, RequiredText("Error: Order ID is required"))
      ELSE Start("get_order", args, "GET",
                 Endpoint("/equity/orders/{order_id}", order_id, -1, <<>>), NoBody)

place_market_order_enter(ticker, quantity) ==
  LET op == "place_market_order"
      args == [NoArgs EXCEPT !.ticker = ticker, !.quantity = quantity]
  IN CASE Blank(ticker) -> Returned(op, args, RequiredText("Error: Ticker symbol is required"))
       [] ~Blank(ticker) /\ Blank(quantity) ->
            Returned(op, args, RequiredText("Error: Quantity is required"))
       [] ~Blank(ticker) /\ ~Blank(quantity) /\ ~FloatParses(quantity) ->
            Returned(op, args, InvalidText(op, args))
       [] OTHER ->
            Start(op, args, "POST", Endpoint("/equity/orders/market", <<>>, -1, <<>>),
                  [ticker |-> ticker, quantity |-> FloatValue(quantity), priceKey |-> "",
                   price |-> 0, timeValidity |-> <<>>])

place_limit_order_enter(ticker, quantity, limit_price, time_validity) ==
  LET op == "place_limit_order"
      args == [NoArgs EXCEPT !.ticker = ticker, !.quantity = quantity,
                             !.limit_price = limit_price, !.time_validity = time_validity]
  IN CASE Blank(ticker) -> Returned(op, args, RequiredText("Error: Ticker symbol is required"))
       [] ~Blank(ticker) /\ Blank(quantity) ->
            Returned(op, args, RequiredText("Error: Quantity is required"))
       [] ~Blank(ticker) /\ ~Blank(quantity) /\ Blank(limit_price) ->
            Returned(op, args, RequiredText("Error: Limit price is required"))
       [] ~Blank(ticker) /\ ~Blank(quantity) /\ ~Blank(limit_price)
          /\ (~FloatParses(quantity) \/ ~FloatParses(limit_price)) ->
            Returned(op, args, InvalidText(op, args))
       [] OTHER ->
            Start(op, args, "POST", Endpoint("/equity/orders/limit", <<>>, -1, <<>>),
                  [ticker |-> ticker, quantity |-> FloatValue(quantity),
                   priceKey |-> "limitPrice", price |-> FloatValue(limit_price),
                   timeValidity |-> time_validity])

place_stop_order_enter(ticker, quantity, stop_price, time_validity) ==
  LET op == "place_stop_order"
      args == [NoArgs EXCEPT !.ticker = ticker, !.quantity = quantity,
                             !.stop_price = stop_price, !.time_validity = time_validity]
  IN CASE Blank(ticker) -> Returned(op, args, RequiredText("Error: Ticker symbol is required"))
       [] ~Blank(ticker) /\ Blank(quantity) ->
            Returned(op, args, RequiredText("Error: Quantity is required"))
       [] ~Blank(ticker) /\ ~Blank(quantity) /\ Blank(stop_price) ->
            Returned(op, args, RequiredText("Error: Stop price is required"))
       [] ~Blank(ticker) /\ ~Blank(quantity) /\ ~Blank(stop_price)
          /\ (~FloatParses(quantity) \/ ~FloatParses(stop_price)) ->
            Returned(op, args, InvalidText(op, args))
       [] OTHER ->
            Start(op, args, "POST", Endpoint("/equity/orders/stop", <<>>, -1, <<>>),
                  [ticker |-> ticker, quantity |-> FloatValue(quantity),
                   priceKey |-> "stopPrice", price |-> FloatValue(stop_price),
                   timeValidity |-> time_validity])

cancel_order_enter(order_id) ==
  LET args == [NoArgs EXCEPT !.order_id = order_id] IN
    IF Blank(order_id)
      THEN Returned("cancel_order", args, RequiredText("Error: Order ID is required"))
      ELSE Start("cancel_order", args, "DELETE",
                 Endpoint("/equity/orders/{order_id}", order_id, -1, <<>>), NoBody)

\* "endpoint += f'&ticker={ticker}'" only "if ticker.strip()"
TickerFilter(ticker) == IF Blank(ticker) THEN <<>> ELSE ticker

\* get_order_history without "except ValueError": int()'s message is returned
get_order_history_enter_unhandled(ticker, limit) ==
  LET op == "get_order_history"
      args == [NoArgs EXCEPT !.ticker = ticker, !.limit = limit]
  IN IF ~LimitParses(limit) THEN Returned(op, args, ErrorText("ValueError"))
     ELSE Start(op, args, "GET",
                Endpoint("/equity/history/orders", <<>>, LimitInt(limit), TickerFilter(ticker)),
                NoBody)

get_order_history_enter(ticker, limit) ==
  LET op == "get_order_history"
      args == [NoArgs EXCEPT !.ticker = ticker, !.limit = limit]
  IN IF ~LimitParses(limit) THEN Returned(op, args, InvalidText(op, args))
     ELSE Start(op, args, "GET",
                Endpoint("/equity/history/orders", <<>>, LimitInt(limit), TickerFilter(ticker)),
                NoBody)

get_dividends_enter(ticker, limit) ==
  LET op == "get_dividends"
      args == [NoArgs EXCEPT !.ticker = ticker, !.limit = limit]
  IN IF ~LimitParses(limit) THEN Returned(op, args, InvalidText(op, args))
     ELSE Start(op, args, "GET",
                Endpoint("/history/dividends", <<>>, LimitInt(limit), TickerFilter(ticker)),
                NoBody)

get_transactions_enter(limit) ==
  LET op == "get_transactions"
      args == [NoArgs EXCEPT !.limit = limit]
  IN IF ~LimitParses(limit) THEN Returned(op, args, InvalidText(op, args))
     ELSE Start(op, args, "GET",
                Endpoint("/history/transactions", <<>>, LimitInt(limit), <<>>), NoBody)

list_pies_enter ==
  Start("list_pies", NoArgs, "GET", Endpoint("/equity/pies", <<>>, -1, <<>>), NoBody)

get_pie_enter(pie_id) ==
  LET args == [NoArgs EXCEPT !.pie_id = pie_id] IN
    IF Blank(pie_id)
      THEN Returned("get_pie", args, RequiredText("Error: Pie ID is required"))
      ELSE Start("get_pie", args, "GET",
                 Endpoint("/equity/pies/{pie_id}", pie_id, -1, <<>>), NoBody)

(***************************************************************************)
(* The inputs the host passes to the tools.                                *)
(***************************************************************************)
AAPL == <<"A", "A", "P", "L">>

TickerInputs == {<<>>, <<" ">>, AAPL}

IdInputs == {<<>>, <<" ", "\t">>, <<"4", "2">>}

QuantityInputs == {<<>>, <<" ">>, <<"5">>, <<"-", "1", ".", "5">>, <<" ", "2", " ">>,
                   <<"a", "b", "c">>, <<"1", ".", "2", ".", "3">>}

PriceInputs == {<<>>, <<"\n">>, <<"9", ".", "9", "9">>, <<"1", "0">>, <<"x">>}

TimeValidityInputs == {DAY, <<"G", "T", "C">>}

LimitInputs == {FIFTY, <<>>, <<" ">>, <<"1", "0", "0", "0">>, <<"5", "1">>, <<"1", "0">>,
                <<" ", "7", " ">>, <<"-", "5">>, <<"a", "b", "c">>, <<"1", ".", "5">>}

QueryInputs == {<<>>, <<" ">>, <<"a">>, <<"A", "p">>, <<"B">>, <<"z", "z">>, <<" ", "a">>}

(***************************************************************************)
(* The outcomes of a call: what the remote server (or the transport) can   *)
(* answer.  The remote schema is not validated, so the payloads hold well  *)
(* formed objects and malformed ones.                                      *)
(***************************************************************************)
SeqsUpTo(S, n) == UNION {[1..k -> S] : k \in 0..n}

ErrorOutcomes ==
  {Transport("ConnectError"), Transport("ReadTimeout"),
   HttpText(302, ""), HttpText(401, ""), HttpText(404, "Not Found"),
   HttpText(500, "Internal Server Error"),
   HttpText(200, "<html>"), HttpText(204, "")}

\* payloads of no expected shape
CommonPayloads ==
  {JNull, JNum(5), JStr(<<"h", "i">>), JStr(<<FAIL, " ", "n", "o">>), EmptyList,
   JDict(<<>>), JList(<<JNum(1)>>)}

AccountInfoPayloads ==
  {JDict([id |-> JNum(1), currencyCode |-> JStr(<<"U", "S", "D">>), cash |-> JNum(1234)]),
   JDict([id |-> JNum(1)]),
   JDict([id |-> JNull, currencyCode |-> JNum(7), cash |-> JStr(<<"x">>)])}

AccountCashPayloads ==
  {JDict([free |-> JNum(10), invested |-> JNum(20), ppl |-> JNum(-3), result |-> JNum(1),
          total |-> JNum(30), blocked |-> JNum(0), pieppl |-> JNum(0)]),
   JDict([free |-> JNull, total |-> JStr(<<"1", "2">>)])}

PositionSamples ==
  {JDict([ticker |-> JStr(AAPL), quantity |-> JNum(2), averagePrice |-> JNum(10),
          currentPrice |-> JNum(12), ppl |-> JNum(4)]),
   JDict([ticker |-> JStr(AAPL), quantity |-> JNum(0), averagePrice |-> JNum(10),
          currentPrice |-> JNum(12), ppl |-> JNum(0)]),
   JDict([ticker |-> JStr(AAPL), quantity |-> JNum(-2), averagePrice |-> JNum(10),
          currentPrice |-> JNum(9), ppl |-> JNum(3)]),
   JDict([ticker |-> JStr(AAPL), quantity |-> JNum(3), averagePrice |-> JNum(7),
          currentPrice |-> JNum(5), ppl |-> JNum(-6)]),
   JDict([ticker |-> JStr(AAPL), ppl |-> JNum(1)]),
   JDict([ticker |-> JStr(AAPL), quantity |-> JNum(2), averagePrice |-> JNull,
          currentPrice |-> JNum(12), ppl |-> JNum(4)]),
   JDict([ticker |-> JNull, quantity |-> JStr(<<"2">>), averagePrice |-> JNum(10),
          currentPrice |-> JNum(12), ppl |-> JNum(4)])}

ScheduleSample == JDict([openTime |-> JStr(<<"8">>), closeTime |-> JStr(<<"1", "6">>)])

ExchangeSamples ==
  {JDict([id |-> JNum(1), name |-> JStr(<<"N", "Y">>),
          workingSchedules |-> JList(<<ScheduleSample>>)]),
   JDict([id |-> JNum(2), name |-> JStr(<<"L", "S", "E">>),
          workingSchedules |-> JList(<<ScheduleSample, JDict(<<>>), ScheduleSample,
                                       ScheduleSample>>)]),
   JDict([id |-> JNum(3)]),
   JDict([id |-> JNum(4), workingSchedules |-> JNum(5)]),
   JDict([id |-> JNum(5), workingSchedules |-> JStr(<<"a", "b">>)])}

\* the instruments the generated lists are made of
InstrumentPool ==
  <<JDict([ticker |-> JStr(AAPL), name |-> JStr(<<"A", "p", "p", "l", "e">>),
           currencyCode |-> JStr(<<"U", "S", "D">>), type |-> JStr(<<"S">>)]),
    JDict([ticker |-> JStr(<<"B", "A">>), name |-> JStr(<<"B", "o", "e", "i", "n", "g">>)]),
    JDict([ticker |-> JNull, name |-> JStr(<<"x">>)]),
    JDict([ticker |-> JStr(<<"M", "S", "F", "T">>)]),
    JDict([name |-> JStr(<<"a", "p", "e", "x">>)]),
    JDict([ticker |-> JStr(<<"A", "P", "A">>), name |-> JNum(5)])>>

\* the list of n instruments that starts at pool entry a + 1 and steps by d
InstrumentList(n, a, d) ==
  JList([k \in 1..n |-> InstrumentPool[((a + (k - 1) * d) % Len(InstrumentPool)) + 1]])

\* the list of n instruments that are pool entry a but for entry j, which is b
InstrumentListBut(n, a, j, b) ==
  JList([k \in 1..n |-> IF k = j THEN InstrumentPool[b] ELSE InstrumentPool[a]])

InstrumentPayloads ==
  {InstrumentList(n, a, d) : n \in 1..MaxInstruments, a \in 0..(Len(InstrumentPool) - 1),
                             d \in {0, 2, 3}}
  \cup {InstrumentListBut(n, a, IF last THEN n ELSE 1, 4) :
          n \in 2..MaxInstruments, a \in {1, 5}, last \in BOOLEAN}

ActiveOrderSamples ==
  {JDict([id |-> JNum(7), ticker |-> JStr(AAPL), type |-> JStr(<<"L">>), quantity |-> JNum(1),
          limitPrice |-> JNum(10), status |-> JStr(<<"N", "E", "W">>)]),
   JDict([id |-> JNum(8), ticker |-> JStr(AAPL), stopPrice |-> JNull]),
   JStr(<<"o">>)}

OrderPayloads ==
  {JDict([id |-> JNum(7), ticker |-> JStr(AAPL), type |-> JStr(<<"L">>), quantity |-> JNum(1),
          filledQuantity |-> JNum(0), limitPrice |-> JNum(10),
          status |-> JStr(<<"N", "E", "W">>)]),
   JDict([id |-> JNull, stopPrice |-> JStr(<<"9">>)])}

OrderPlacedPayloads ==
  {JDict([id |-> JNum(7), status |-> JStr(<<"N", "E", "W">>)]),
   JDict([status |-> JNull])}

\* a history payload: an object whose "items" is v
Items(v) == JDict([items |-> v])

HistoryOrderSamples ==
  {JDict([id |-> JNum(7), ticker |-> JStr(AAPL), filledQuantity |-> JNum(1),
          fillPrice |-> JNum(10)]),
   JDict([id |-> JNum(8), quantity |-> JNum(2)]),
   JNull}

DividendSamples ==
  {JDict([ticker |-> JStr(AAPL), amount |-> JNum(3), quantity |-> JNum(2)]),
   JDict([amount |-> JNum(4)]),
   JDict([ticker |-> JStr(AAPL), amount |-> JStr(<<"1", ".", "5">>)]),
   JDict([ticker |-> JStr(AAPL), amount |-> JNull])}

TransactionSamples ==
  {JDict([type |-> JStr(<<"D">>), amount |-> JNum(100), reference |-> JStr(<<"r">>)]),
   JDict([amount |-> JNull]),
   JNum(3)}

\* "items" that is no list, and an object without "items"
OddItems == {Items(JNull), Items(JNum(3)), Items(JStr(<<"a">>)), JDict([nextPagePath |-> JNull])}

HoldingSamples ==
  <<JDict([ticker |-> JStr(AAPL), shares |-> JNum(2), expectedShare |-> JNum(50)]),
    JDict([ticker |-> JNull])>>

PieSamples ==
  {JDict([id |-> JNum(1), name |-> JStr(<<"P">>), instruments |-> JList(HoldingSamples),
          goal |-> JNum(100), result |-> JNum(5)]),
   JDict([id |-> JNum(2)]),
   JDict([id |-> JNum(3), instruments |-> JNull])}

PiePayloads ==
  {JDict([id |-> JNum(1), name |-> JStr(<<"P">>), instruments |-> JList(HoldingSamples),
          goal |-> JNum(100), cash |-> JNum(5)]),
   JDict([id |-> JNum(2)]),
   JDict([id |-> JNum(3), instruments |-> JNum(2)]),
   JDict([id |-> JNum(4), instruments |-> JList(<<JNum(1)>>)])}

ListsOf(S) == {JList(q) : q \in SeqsUpTo(S, MaxItems)}

Payloads(op) ==
  CommonPayloads \cup
  CASE op = "get_account_info" -> AccountInfoPayloads
    [] op = "get_account_cash" -> AccountCashPayloads
    [] op = "get_portfolio" -> ListsOf(PositionSamples)
    [] op = "get_position" -> PositionSamples
    [] op = "list_exchanges" -> ListsOf(ExchangeSamples)
    [] op = "search_instruments" -> InstrumentPayloads
    [] op = "get_active_orders" -> ListsOf(ActiveOrderSamples)
    [] op = "get_order" -> OrderPayloads
    [] op \in {"place_market_order", "place_limit_order", "place_stop_order"} ->
         OrderPlacedPayloads
    [] op = "cancel_order" -> {}
    [] op = "get_order_history" ->
         OddItems \cup {Items(v) : v \in ListsOf(HistoryOrderSamples)}
    [] op = "get_dividends" -> OddItems \cup {Items(v) : v \in ListsOf(DividendSamples)}
    [] op = "get_transactions" ->
         OddItems \cup {Items(v) : v \in ListsOf(TransactionSamples)}
    [] op = "list_pies" -> ListsOf(PieSamples)
    [] op = "get_pie" -> PiePayloads

Outcomes(op) == ErrorOutcomes \cup {HttpJson(200, p) : p \in Payloads(op)}

(***************************************************************************)
(* The state machine.                                                      *)
(***************************************************************************)
Slots == {1}

Init ==
  /\ environ \in Environments
  /\ API_KEY = EnvironGet(environ.TRADING212_API_KEY, <<>>)
  /\ API_SECRET = EnvironGet(environ.TRADING212_API_SECRET, <<>>)
  /\ ENVIRONMENT = EnvironGet(environ.TRADING212_ENVIRONMENT, <<"l", "i", "v", "e">>)
  /\ inv = [i \in Slots |-> IdleSlot]

Config == <<environ, API_KEY, API_SECRET, ENVIRONMENT>>

\* The host invokes a tool on an idle slot: the tool runs to its call of
\* make_request, or to its return.
get_account_info(i) ==
  /\ inv[i].pc = "idle"
  /\ inv' = [inv EXCEPT ![i] = get_account_info_enter]
  /\ UNCHANGED Config

get_account_cash(i) ==
  /\ inv[i].pc = "idle"
  /\ inv' = [inv EXCEPT ![i] = get_account_cash_enter]
  /\ UNCHANGED Config

get_portfolio(i) ==
  /\ inv[i].pc = "idle"
  /\ inv' = [inv EXCEPT ![i] = get_portfolio_enter]
  /\ UNCHANGED Config

get_position(i) ==
  /\ inv[i].pc = "idle"
  /\ \E ticker \in TickerInputs :
       inv' = [inv EXCEPT ![i] = get_position_enter(ticker)]
  /\ UNCHANGED Config

list_exchanges(i) ==
  /\ inv[i].pc = "idle"
  /\ inv' = [inv EXCEPT ![i] = list_exchanges_enter]
  /\ UNCHANGED Config

search_instruments(i) ==
  /\ inv[i].pc = "idle"
  /\ \E query \in QueryInputs :
       inv' = [inv EXCEPT ![i] = search_instruments_enter(query)]
  /\ UNCHANGED Config

get_active_orders(i) ==
  /\ inv[i].pc = "idle"
  /\ inv' = [inv EXCEPT ![i] = get_active_orders_enter]
  /\ UNCHANGED Config

get_order(i) ==
  /\ inv[i].pc = "idle"
  /\ \E order_id \in IdInputs :
       inv' = [inv EXCEPT ![i] = get_order_enter(order_id)]
  /\ UNCHANGED Config

place_market_order(i) ==
  /\ inv[i].pc = "idle"
  /\ \E ticker \in TickerInputs, quantity \in QuantityInputs :
       inv' = [inv EXCEPT ![i] = place_market_order_enter(ticker, quantity)]
  /\ UNCHANGED Config

place_limit_order(i) ==
  /\ inv[i].pc = "idle"
  /\ \E ticker \in TickerInputs, quantity \in QuantityInputs, limit_price \in PriceInputs,
        time_validity \in TimeValidityInputs :
       inv' = [inv EXCEPT
                 ![i] = place_limit_order_enter(ticker, quantity, limit_price, time_validity)]
  /\ UNCHANGED Config

place_stop_order(i) ==
  /\ inv[i].pc = "idle"
  /\ \E ticker \in TickerInputs, quantity \in QuantityInputs, stop_price \in PriceInputs,
        time_validity \in TimeValidityInputs :
       inv' = [inv EXCEPT
                 ![i] = place_stop_order_enter(ticker, quantity, stop_price, time_validity)]
  /\ UNCHANGED Config

cancel_order(i) ==
  /\ inv[i].pc = "idle"
  /\ \E order_id \in IdInputs :
       inv' = [inv EXCEPT ![i] = cancel_order_enter(order_id)]
  /\ UNCHANGED Config

get_order_history(i) ==
  /\ inv[i].pc = "idle"
  /\ \E ticker \in TickerInputs, limit \in LimitInputs :
       inv' = [inv EXCEPT ![i] = get_order_history_enter(ticker, limit)]
  /\ UNCHANGED Config

get_dividends(i) ==
  /\ inv[i].pc = "idle"
  /\ \E ticker \in TickerInputs, limit \in LimitInputs :
       inv' = [inv EXCEPT ![i] = get_dividends_enter(ticker, limit)]
  /\ UNCHANGED Config

get_transactions(i) ==
  /\ inv[i].pc = "idle"
  /\ \E limit \in LimitInputs :
       inv' = [inv EXCEPT ![i] = get_transactions_enter(limit)]
  /\ UNCHANGED Config

list_pies(i) ==
  /\ inv[i].pc = "idle"
  /\ inv' = [inv EXCEPT ![i] = list_pies_enter]
  /\ UNCHANGED Config

get_pie(i) ==
  /\ inv[i].pc = "idle"
  /\ \E pie_id \in IdInputs :
       inv' = [inv EXCEPT ![i] = get_pie_enter(pie_id)]
  /\ UNCHANGED Config

\* make_request, lines 54-83, called by the tool of slot i
make_request(i) ==
  /\ inv[i].pc = "calling"
  /\ inv' = [inv EXCEPT ![i] = Send(inv[i])]
  /\ UNCHANGED Config

\* the awaited HTTP call of slot i ends, and its tool runs to its return
HttpResponse(i) ==
  /\ inv[i].pc = "awaiting"
  /\ \E o \in Outcomes(inv[i].op) : inv' = [inv EXCEPT ![i] = Resume(inv[i], o)]
  /\ UNCHANGED Config

\* the host takes the returned text; the slot is free for the next invocation
Return(i) ==
  /\ inv[i].pc = "done"
  /\ inv' = [inv EXCEPT ![i] = IdleSlot]
  /\ UNCHANGED Config

Next ==
  \E i \in Slots :
    \/ get_account_info(i)
    \/ get_account_cash(i)
    \/ get_portfolio(i)
    \/ get_position(i)
    \/ list_exchanges(i)
    \/ search_instruments(i)
    \/ get_active_orders(i)
    \/ get_order(i)
    \/ place_market_order(i)
    \/ place_limit_order(i)
    \/ place_stop_order(i)
    \/ cancel_order(i)
    \/ get_order_history(i)
    \/ get_dividends(i)
    \/ get_transactions(i)
    \/ list_pies(i)
    \/ get_pie(i)
    \/ make_request(i)
    \/ HttpResponse(i)
    \/ Return(i)

Spec == Init /\ [][Next]_vars

(***************************************************************************)
(* What the properties below speak of: the inputs of an invocation, as the *)
(* host passed them.                                                       *)
(***************************************************************************)
\* the input is empty or consists of whitespace only
OnlyWhitespace(s) == \A k \in 1..Len(s) : s[k] \in Whitespace

\* the required inputs of a tool
RequiredInputs(op, args) ==
  CASE op = "get_position" -> {args.ticker}
    [] op \in {"get_order", "cancel_order"} -> {args.order_id}
    [] op = "get_pie" -> {args.pie_id}
    [] op = "search_instruments" -> {args.query}
    [] op = "place_market_order" -> {args.ticker, args.quantity}
    [] op = "place_limit_order" -> {args.ticker, args.quantity, args.limit_price}
    [] op = "place_stop_order" -> {args.ticker, args.quantity, args.stop_price}
    [] OTHER -> {}

\* the inputs of a tool that are numbers in string form: quantities and prices
AmountInputs(op, args) ==
  CASE op = "place_market_order" -> {args.quantity}
    [] op = "place_limit_order" -> {args.quantity, args.limit_price}
    [] op = "place_stop_order" -> {args.quantity, args.stop_price}
    [] OTHER -> {}

\* ... and history limits
LimitInputsOf(op, args) ==
  IF op \in {"get_order_history", "get_dividends", "get_transactions"} THEN {args.limit} ELSE {}

SomeRequiredBlank(slot) == \E x \in RequiredInputs(slot.op, slot.args) : OnlyWhitespace(x)

\* a numeric input that is not blank and is no number
SomeNumericUnparsable(slot) ==
  \E x \in AmountInputs(slot.op, slot.args) \cup LimitInputsOf(slot.op, slot.args) :
    ~OnlyWhitespace(x) /\ ~FloatParses(x)

\* every input passes the tool's validation and parsing
InputsAccepted(slot) ==
  /\ ~SomeRequiredBlank(slot)
  /\ \A x \in AmountInputs(slot.op, slot.args) : FloatParses(x)
  /\ \A x \in LimitInputsOf(slot.op, slot.args) : OnlyWhitespace(x) \/ IntParses(x)

ValidationTexts ==
  {Text(FAIL, "Error: Ticker symbol is required"), Text(FAIL, "Error: Order ID is required"),
   Text(FAIL, "Error: Pie ID is required"), Text(FAIL, "Error: Quantity is required"),
   Text(FAIL, "Error: Limit price is required"), Text(FAIL, "Error: Stop price is required"),
   Text(FAIL, "Error: Search query is required")}

InvalidNumericWordings ==
  {"Error: Invalid quantity value:", "Error: Invalid numeric value",
   "Error: Invalid limit value:"}

IsInvalidNumericText(t) == t.lead = FAIL /\ t.msg \in InvalidNumericWordings

Done(i) == inv[i].pc = "done"

\* no network call has been performed in the invocation of slot i
NoNetworkCall(i) ==
  inv[i].calls = 0 /\ inv[i].request = NoRequest /\ inv[i].pc # "awaiting"

(***************************************************************************)
(* C1.  As claimed: with empty credentials (API key or API secret empty)   *)
(* every tool operation, for every input, returns the not-configured text  *)
(* and performs zero network calls.                                        *)
(***************************************************************************)
C1_AsClaimed ==
  \A i \in DOMAIN inv :
    (NoCredentials /\ Done(i)) => (inv[i].result = NotConfiguredText /\ NoNetworkCall(i))

(***************************************************************************)
(* C1, amended.  With empty credentials no tool operation ever performs a  *)
(* network call, and it returns the not-configured text for every input    *)
(* that passes its validation and numeric parsing; for an input that does  *)
(* not, it returns the validation or invalid-numeric text instead (the     *)
(* inputs are checked before the credentials).                             *)
(***************************************************************************)
C1_NotConfigured ==
  \A i \in DOMAIN inv :
    NoCredentials =>
      /\ NoNetworkCall(i)
      /\ Done(i) =>
           IF InputsAccepted(inv[i]) THEN inv[i].result = NotConfiguredText
           ELSE inv[i].result \in ValidationTexts \/ IsInvalidNumericText(inv[i].result)

C1_Witness ==
  \E i \in DOMAIN inv :
    /\ NoCredentials /\ Done(i) /\ inv[i].op = "place_limit_order"
    /\ InputsAccepted(inv[i]) /\ inv[i].result = NotConfiguredText /\ inv[i].calls = 0

(***************************************************************************)
(* C2.  For get_position, get_order, cancel_order, get_pie and the three   *)
(* place_*_order tools: when any required input is empty or only           *)
(* whitespace, the tool returns a validation-error text with the failure   *)
(* marker, and the invocation performs no network call (it never even      *)
(* calls make_request).                                                    *)
(***************************************************************************)
C2_Tools == {"get_position", "get_order", "cancel_order", "get_pie", "place_market_order",
             "place_limit_order", "place_stop_order"}

C2_BlankRequiredInput ==
  \A i \in DOMAIN inv :
    (inv[i].op \in C2_Tools /\ SomeRequiredBlank(inv[i])) =>
      /\ Done(i)
      /\ NoNetworkCall(i)
      /\ inv[i].call = NoCall
      /\ inv[i].result \in ValidationTexts
      /\ TextStartsWithFail(inv[i].result)

C2_Witness ==
  \E i \in DOMAIN inv :
    /\ ~NoCredentials /\ Done(i) /\ inv[i].op = "place_limit_order"
    /\ ~OnlyWhitespace(inv[i].args.ticker) /\ FloatParses(inv[i].args.quantity)
    /\ inv[i].args.limit_price = <<"\n">>
    /\ inv[i].result = Text(FAIL, "Error: Limit price is required")
    /\ inv[i].calls = 0

(***************************************************************************)
(* C3.  As claimed: for every numeric input (quantity, limit_price,        *)
(* stop_price of the place_* tools; limit of the history tools), a         *)
(* non-blank string that is no number makes the tool return the            *)
(* invalid-numeric text with the failure marker, without a network call.   *)
(***************************************************************************)
C3_AsClaimed ==
  \A i \in DOMAIN inv :
    (SomeNumericUnparsable(inv[i]) /\ inv[i].pc # "idle") =>
      /\ Done(i)
      /\ NoNetworkCall(i)
      /\ IsInvalidNumericText(inv[i].result)

(***************************************************************************)
(* C3, amended.  A non-blank numeric input that is no number makes the     *)
(* tool return a text with the failure marker without a network call; the  *)
(* text is the invalid-numeric text provided every required input of the   *)
(* tool is non-blank, and the validation-error text of the blank input     *)
(* otherwise (the blank test of all required inputs precedes the parsing). *)
(***************************************************************************)
C3_InvalidNumeric ==
  \A i \in DOMAIN inv :
    (SomeNumericUnparsable(inv[i]) /\ inv[i].pc # "idle") =>
      /\ Done(i)
      /\ NoNetworkCall(i)
      /\ inv[i].call = NoCall
      /\ TextStartsWithFail(inv[i].result)
      /\ IF SomeRequiredBlank(inv[i]) THEN inv[i].result \in ValidationTexts
         ELSE inv[i].result = InvalidText(inv[i].op, inv[i].args)

C3_Witness ==
  \E i \in DOMAIN inv :
    /\ ~NoCredentials /\ Done(i) /\ inv[i].op = "place_limit_order"
    /\ ~OnlyWhitespace(inv[i].args.ticker) /\ FloatParses(inv[i].args.quantity)
    /\ inv[i].args.limit_price = <<"x">>
    /\ inv[i].result = Text(FAIL, "Error: Invalid numeric value")
    /\ inv[i].calls = 0

\* the remote outcome of the one call of slot i, when that call has ended
Answered(i) == Done(i) /\ inv[i].calls = 1

RemoteFailure(o) == o.kind = "transport" \/ ~IsSuccess(o.status) \/ ~o.isJson

\* the call of slot i ended with a 2xx response whose body is JSON
AnsweredJson(i) == Answered(i) /\ ~RemoteFailure(inv[i].resp)

\* the payload has a shape the tool's formatting cannot process
UnexpectedShape(slot) == Format(slot.op, slot.args, slot.resp.json).raised

\* the invocation of slot i has ended on one of its failing paths
FailingPath(i) ==
  \/ ~InputsAccepted(inv[i])
  \/ NoCredentials
  \/ Answered(i) /\ RemoteFailure(inv[i].resp)
  \/ AnsweredJson(i) /\ UnexpectedShape(inv[i])

(***************************************************************************)
(* C4.  A tool operation never raises: for every input, credential         *)
(* configuration and remote outcome (2xx, non-2xx, transport failure,      *)
(* unparsable body, unexpected payload shape) the invocation ends by       *)
(* returning one text, never an exception, and on every failing path that  *)
(* text starts with the failure marker.                                    *)
(***************************************************************************)
C4_NeverRaises ==
  \A i \in DOMAIN inv :
    Done(i) =>
      /\ inv[i].result # NoText
      /\ inv[i].result.msg # ""
      /\ FailingPath(i) => TextStartsWithFail(inv[i].result)

C4_Witness ==
  \E i \in DOMAIN inv :
    /\ AnsweredJson(i) /\ inv[i].op = "get_position"
    /\ inv[i].resp.json.ty = "list"
    /\ UnexpectedShape(inv[i])
    /\ inv[i].result = ErrorText("AttributeError")

(***************************************************************************)
(* C5.  An invocation performs at most one outbound network call, on       *)
(* success and on every failure alike: the call counter of an invocation   *)
(* never passes 1, and once a call has been made (whatever its outcome:    *)
(* non-2xx, transport error, timeout, body-parse error) the invocation is  *)
(* never again about to call.                                              *)
(***************************************************************************)
C5_AtMostOneCall ==
  \A i \in DOMAIN inv :
    /\ inv[i].calls <= 1
    /\ inv[i].pc = "calling" => inv[i].calls = 0
    /\ inv[i].pc = "awaiting" => inv[i].calls = 1
    /\ (Done(i) /\ inv[i].resp # NoOutcome) => inv[i].calls = 1

C5_Witness ==
  \E i \in DOMAIN inv :
    /\ Answered(i) /\ inv[i].op = "search_instruments"
    /\ inv[i].resp.kind = "transport" /\ inv[i].resp.text = "ReadTimeout"
    /\ TextStartsWithFail(inv[i].result)

(***************************************************************************)
(* C6.  When the remote server answers the call with a 4xx or 5xx status,  *)
(* the result text of the tool, whichever tool it is, starts with the      *)
(* failure marker and contains the numeric status code of that response.   *)
(***************************************************************************)
C6_StatusCodeInText ==
  \A i \in DOMAIN inv :
    (Answered(i) /\ inv[i].resp.kind = "http"
       /\ 400 <= inv[i].resp.status /\ inv[i].resp.status <= 599) =>
      /\ TextStartsWithFail(inv[i].result)
      /\ inv[i].result.msg = "API Error"
      /\ inv[i].result.code = inv[i].resp.status

C6_Witness ==
  \E i \in DOMAIN inv :
    /\ Answered(i) /\ inv[i].op = "get_order_history"
    /\ inv[i].resp.kind = "http" /\ inv[i].resp.status = 404
    /\ inv[i].result.lead = FAIL /\ inv[i].result.code = 404

(***************************************************************************)
(* C7.  As claimed: the active base URL (the one every request goes to) is *)
(* the live endpoint exactly when the environment setting is present and   *)
(* equals "live" case-insensitively; for any other value, and for an       *)
(* absent setting, it is the demo endpoint.                                *)
(***************************************************************************)
EnvironmentSetting == environ.TRADING212_ENVIRONMENT

SettingIsLive == EnvironmentSetting.set /\ Lower(EnvironmentSetting.val) = <<"l", "i", "v", "e">>

C7_AsClaimed ==
  /\ get_base_url = (IF SettingIsLive THEN LIVE_BASE_URL ELSE DEMO_BASE_URL)
  /\ \A i \in DOMAIN inv :
       inv[i].calls = 1 =>
         inv[i].request.url = (IF SettingIsLive THEN LIVE_BASE_URL ELSE DEMO_BASE_URL)

(***************************************************************************)
(* C7, amended.  The active base URL is the live endpoint exactly when the *)
(* environment setting is absent (it then defaults to "live") or equals    *)
(* "live" case-insensitively; for any other value, the empty one included, *)
(* it is the demo endpoint.  Every request goes to that URL.               *)
(***************************************************************************)
C7_BaseUrl ==
  LET live == ~EnvironmentSetting.set \/ SettingIsLive
      url == IF live THEN LIVE_BASE_URL ELSE DEMO_BASE_URL
  IN /\ get_base_url = url
     /\ \A i \in DOMAIN inv : inv[i].calls = 1 => inv[i].request.url = url

C7_Witness ==
  \E i \in DOMAIN inv :
    /\ inv[i].pc = "awaiting" /\ inv[i].calls = 1
    /\ ~EnvironmentSetting.set
    /\ inv[i].request.url = LIVE_BASE_URL

(***************************************************************************)
(* C8.  For get_order_history, get_dividends and get_transactions, the     *)
(* limit sent in the request never exceeds 50 for any parseable limit      *)
(* input (an input of 50 or more, such as "1000", is sent as 50; a smaller *)
(* one is sent as it is), and a blank limit is sent as 50.                 *)
(***************************************************************************)
HistoryTools == {"get_order_history", "get_dividends", "get_transactions"}

C8_LimitCapped ==
  \A i \in DOMAIN inv :
    (inv[i].op \in HistoryTools /\ inv[i].calls = 1) =>
      LET limit == inv[i].args.limit
          sent == inv[i].request.limit
      IN /\ sent <= 50
         /\ OnlyWhitespace(limit) => sent = 50
         /\ (IntParses(limit) /\ IntValue(limit) >= 50) => sent = 50
         /\ (IntParses(limit) /\ IntValue(limit) < 50) => sent = IntValue(limit)

C8_Witness ==
  \E i \in DOMAIN inv :
    /\ inv[i].op = "get_order_history" /\ inv[i].pc = "awaiting" /\ inv[i].calls = 1
    /\ inv[i].args.limit = <<"1", "0", "0", "0">>
    /\ inv[i].request.limit = 50

(***************************************************************************)
(* C9.  search_instruments selects exactly the instruments whose ticker or *)
(* name contains the query as a case-insensitive substring; for n matches  *)
(* it displays min(n, 10) of them in source order, and it adds the         *)
(* trailing "and N more" note exactly when n > 10, with N = n - 10.        *)
(* (Stated for a payload that is a list of instruments whose ticker and    *)
(* name, where present, are strings.)                                      *)
(***************************************************************************)
StrField(inst, key) == IF key \in DOMAIN inst.d THEN inst.d[key].s ELSE <<>>

WellFormedInstrument(inst) ==
  /\ inst.ty = "dict"
  /\ \A key \in {"ticker", "name"} \cap DOMAIN inst.d : inst.d[key].ty = "str"

QueryMatches(inst, query) ==
  \/ Contains(Lower(StrField(inst, "ticker")), Lower(query))
  \/ Contains(Lower(StrField(inst, "name")), Lower(query))

SearchAnswered(i) ==
  /\ AnsweredJson(i) /\ inv[i].op = "search_instruments"
  /\ inv[i].resp.json.ty = "list"
  /\ \A k \in 1..Len(inv[i].resp.json.items) : WellFormedInstrument(inv[i].resp.json.items[k])

Matching(i) ==
  SelectSeq(inv[i].resp.json.items, LAMBDA inst : QueryMatches(inst, inv[i].args.query))

C9_SearchResults ==
  \A i \in DOMAIN inv :
    SearchAnswered(i) =>
      LET matching == Matching(i)
          n == Len(matching)
          shown == inv[i].result.rows
      IN /\ ~TextStartsWithFail(inv[i].result)
         /\ Len(shown) = (IF n < 10 THEN n ELSE 10)
         /\ \A k \in 1..Len(shown) : shown[k] = InstrumentRow(matching[k])
         /\ inv[i].result.moreShown <=> n > 10
         /\ n > 10 => inv[i].result.more = n - 10
         /\ n = 0 <=> inv[i].result.msg = "No instruments found matching"

C9_Witness ==
  \E i \in DOMAIN inv :
    /\ SearchAnswered(i)
    /\ Len(inv[i].resp.json.items) > 11
    /\ Len(Matching(i)) = 11
    /\ Len(inv[i].result.rows) = 10
    /\ inv[i].result.moreShown /\ inv[i].result.more = 1

(***************************************************************************)
(* C10.  The return percentage shown by get_position and by get_portfolio  *)
(* is ppl / (averagePrice * quantity) * 100 when averagePrice * quantity   *)
(* is above 0, and 0 whenever it is 0 or less (averagePrice 10, quantity   *)
(* 0); the computation never divides by zero and never turns the operation *)
(* into a failure.  (Stated for positions whose quantity, averagePrice,    *)
(* currentPrice and ppl, where present, are numbers.)                      *)
(***************************************************************************)
PositionNumbers == {"quantity", "averagePrice", "currentPrice", "ppl"}

NumericPosition(p) ==
  /\ p.ty = "dict"
  /\ \A key \in PositionNumbers \cap DOMAIN p.d : p.d[key].ty = "num"

NumField(p, key) == IF key \in DOMAIN p.d THEN p.d[key].n ELSE 0

\* the percentage of row is that of position p, as an exact fraction
ShownPercentOk(p, row) ==
  LET den == NumField(p, "averagePrice") * NumField(p, "quantity")
      pct == row.d.ppl_percent
  IN /\ pct.ty = "pct"
     /\ pct.d.den # 0
     /\ IF den > 0 THEN pct.d.num * den = NumField(p, "ppl") * 100 * pct.d.den
        ELSE pct.d.num = 0

C10_ReturnPercent ==
  \A i \in DOMAIN inv :
    AnsweredJson(i) =>
      LET payload == inv[i].resp.json
          shown == inv[i].result.rows
      IN /\ (inv[i].op = "get_position" /\ NumericPosition(payload)) =>
              /\ ~TextStartsWithFail(inv[i].result)
              /\ Len(shown) = 1
              /\ ShownPercentOk(payload, shown[1])
         /\ (inv[i].op = "get_portfolio" /\ payload.ty = "list" /\ payload.items # <<>>
               /\ \A k \in 1..Len(payload.items) : NumericPosition(payload.items[k])) =>
              /\ ~TextStartsWithFail(inv[i].result)
              /\ Len(shown) = Len(payload.items)
              /\ \A k \in 1..Len(shown) : ShownPercentOk(payload.items[k], shown[k])

C10_Witness ==
  \E i \in DOMAIN inv :
    /\ AnsweredJson(i) /\ inv[i].op = "get_position"
    /\ NumericPosition(inv[i].resp.json)
    /\ NumField(inv[i].resp.json, "averagePrice") = 10
    /\ NumField(inv[i].resp.json, "quantity") = 0
    /\ ~TextStartsWithFail(inv[i].result)
    /\ inv[i].result.rows[1].d.ppl_percent = Pct(0, 1)

\* the invocation of slot i has succeeded: its call was answered with a 2xx
\* parsed payload and the text it returns is no failure text
Succeeded(i) == AnsweredJson(i) /\ ~TextStartsWithFail(inv[i].result)

\* the text t ends with the line that names the active environment
EnvironmentAppended(t) == t.envShown /\ t.env = Upper(ENVIRONMENT)

(***************************************************************************)
(* C11.  As claimed: whenever a tool operation succeeds (its call returned *)
(* a 2xx parsed payload), the text it returns has the active environment   *)
(* name appended, for every tool, list_exchanges, search_instruments and   *)
(* the empty-list results included.  The code does not do so: the texts of *)
(* list_exchanges (line 251) and search_instruments (lines 277, 292) and   *)
(* the "empty" texts (lines 157, 236, 308, 558, 603, 647, 681) end without *)
(* the environment line.                                                   *)
(***************************************************************************)
C11_AsClaimed ==
  \A i \in DOMAIN inv : Succeeded(i) => EnvironmentAppended(inv[i].result)

\* a success text of list_exchanges that lists exchanges and names no environment
C11_Diverges ==
  \E i \in DOMAIN inv :
    /\ Succeeded(i) /\ inv[i].op = "list_exchanges"
    /\ inv[i].result.msg = "Available Exchanges:"
    /\ inv[i].result.rows # <<>>
    /\ ~inv[i].result.envShown

(***************************************************************************)
(* C12.  As claimed: place_market_order, place_limit_order,                *)
(* place_stop_order and cancel_order return a text with the failure marker *)
(* only when the remote server did not accept the request: whenever the    *)
(* server answers the one call with a 2xx status, the tool returns its     *)
(* success text, whatever the response body is (empty or non-JSON          *)
(* included).  The code does not do so: response.json() (line 86) raises   *)
(* on such a body and make_request returns the failure text of line 91.    *)
(***************************************************************************)
MutatingTools == {"place_market_order", "place_limit_order", "place_stop_order", "cancel_order"}

Accepted(i) ==
  /\ Answered(i) /\ inv[i].op \in MutatingTools
  /\ inv[i].resp.kind = "http" /\ IsSuccess(inv[i].resp.status)

C12_AsClaimed ==
  \A i \in DOMAIN inv :
    Accepted(i) => ~TextStartsWithFail(inv[i].result)

\* an accepted cancel_order (2xx, empty body) that returns a failure text
C12_Diverges ==
  \E i \in DOMAIN inv :
    /\ Accepted(i) /\ inv[i].op = "cancel_order"
    /\ inv[i].resp.status = 204 /\ ~inv[i].resp.isJson
    /\ inv[i].result = ErrorText("JSONDecodeError")

(***************************************************************************)
(* C13.  As claimed: formatting never fails on missing or malformed        *)
(* fields: for any 2xx payload of the expected container shape (an object, *)
(* or a list of objects) in which an expected field is missing, null or of *)
(* the wrong type, the tool still returns a success text (no failure       *)
(* marker).  The code does not do so: a missing field is replaced by its   *)
(* default, but a null or wrongly typed one is used as it is, and the      *)
(* arithmetic of lines 166, 209, 213 and 622 and the lower() of lines      *)
(* 272-273 raise on it; the tool then returns the failure text of its      *)
(* except clause.                                                          *)
(***************************************************************************)
ListTools == {"get_portfolio", "list_exchanges", "search_instruments", "get_active_orders",
              "list_pies"}

\* the payload is the container the tool expects: an object, or a list of objects
ExpectedContainer(op, payload) ==
  IF op \in ListTools
    THEN /\ payload.ty = "list"
         /\ \A k \in 1..Len(payload.items) : payload.items[k].ty = "dict"
    ELSE payload.ty = "dict"

C13_AsClaimed ==
  \A i \in DOMAIN inv :
    (AnsweredJson(i) /\ ExpectedContainer(inv[i].op, inv[i].resp.json)) =>
      ~TextStartsWithFail(inv[i].result)

\* a position whose averagePrice is null turns get_position into a failure
C13_Diverges ==
  \E i \in DOMAIN inv :
    /\ AnsweredJson(i) /\ inv[i].op = "get_position"
    /\ ExpectedContainer(inv[i].op, inv[i].resp.json)
    /\ "averagePrice" \in DOMAIN inv[i].resp.json.d
    /\ inv[i].resp.json.d.averagePrice = JNull
    /\ inv[i].result = ErrorText("TypeError")

(***************************************************************************)
(* Concurrent invocations.  The host may invoke a tool while others are    *)
(* suspended at the await of their HTTP call, so the invocations in flight *)
(* interleave at the awaits: each of the slots below runs the tool code of *)
(* the sections above, over the one configuration of the process.  The     *)
(* calls and the answers are a selection of those of Spec: one call of     *)
(* every tool, calls that return before make_request, and an answer of     *)
(* each kind.                                                              *)
(***************************************************************************)
Invocations == {1, 2}

\* the tool named op entered with the arguments args
Enter(op, args) ==
  CASE op = "get_account_info" -> get_account_info_enter
    [] op = "get_account_cash" -> get_account_cash_enter
    [] op = "get_portfolio" -> get_portfolio_enter
    [] op = "get_position" -> get_position_enter(args.ticker)
    [] op = "list_exchanges" -> list_exchanges_enter
    [] op = "search_instruments" -> search_instruments_enter(args.query)
    [] op = "get_active_orders" -> get_active_orders_enter
    [] op = "get_order" -> get_order_enter(args.order_id)
    [] op = "place_market_order" -> place_market_order_enter(args.ticker, args.quantity)
    [] op = "place_limit_order" ->
         place_limit_order_enter(args.ticker, args.quantity, args.limit_price,
                                 args.time_validity)
    [] op = "place_stop_order" ->
         place_stop_order_enter(args.ticker, args.quantity, args.stop_price,
                                args.time_validity)
    [] op = "cancel_order" -> cancel_order_enter(args.order_id)
    [] op = "get_order_history" -> get_order_history_enter(args.ticker, args.limit)
    [] op = "get_dividends" -> get_dividends_enter(args.ticker, args.limit)
    [] op = "get_transactions" -> get_transactions_enter(args.limit)
    [] op = "list_pies" -> list_pies_enter
    [] op = "get_pie" -> get_pie_enter(args.pie_id)

ToolCall(op, args) == [op |-> op, args |-> args]

ConcurrentCalls ==
  {ToolCall(op, NoArgs) :
     op \in {"get_account_info", "get_account_cash", "get_portfolio", "list_exchanges",
             "get_active_orders", "list_pies", "get_order_history", "get_transactions"}}
  \cup {ToolCall("get_position", [NoArgs EXCEPT !.ticker = t]) : t \in {<<" ">>, AAPL}}
  \cup {ToolCall("search_instruments", [NoArgs EXCEPT !.query = <<"a">>]),
        ToolCall("get_order", [NoArgs EXCEPT !.order_id = <<"4", "2">>]),
        ToolCall("cancel_order", [NoArgs EXCEPT !.order_id = <<"4", "2">>]),
        ToolCall("get_pie", [NoArgs EXCEPT !.pie_id = <<"4", "2">>]),
        ToolCall("get_dividends", [NoArgs EXCEPT !.ticker = AAPL, !.limit = <<"a", "b", "c">>]),
        ToolCall("get_dividends", [NoArgs EXCEPT !.limit = <<"1", "0", "0", "0">>]),
        ToolCall("place_market_order", [NoArgs EXCEPT !.ticker = AAPL, !.quantity = <<"5">>]),
        ToolCall("place_limit_order",
                 [NoArgs EXCEPT !.ticker = AAPL, !.quantity = <<"5">>,
                                !.limit_price = <<"1", "0">>]),
        ToolCall("place_stop_order",
                 [NoArgs EXCEPT !.ticker = AAPL, !.quantity = <<"5">>,
                                !.stop_price = <<"x">>])}

ConcurrentOutcomes ==
  {Transport("ReadTimeout"), HttpText(404, "Not Found"), HttpText(204, ""),
   HttpJson(200, JDict(<<>>)), HttpJson(200, EmptyList), HttpJson(200, JList(<<JNum(1)>>))}

InitConcurrent ==
  /\ environ \in Environments
  /\ API_KEY = EnvironGet(environ.TRADING212_API_KEY, <<>>)
  /\ API_SECRET = EnvironGet(environ.TRADING212_API_SECRET, <<>>)
  /\ ENVIRONMENT = EnvironGet(environ.TRADING212_ENVIRONMENT, <<"l", "i", "v", "e">>)
  /\ inv = [i \in Invocations |-> IdleSlot]

\* the host invokes a tool on the idle slot i, whatever the other slots are at
Invoke(i) ==
  /\ inv[i].pc = "idle"
  /\ \E c \in ConcurrentCalls : inv' = [inv EXCEPT ![i] = Enter(c.op, c.args)]
  /\ UNCHANGED Config

\* a response handling that keeps the last answer in a place all invocations
\* read: every invocation that awaits resumes with the answer to slot i
Answer_shared(i) ==
  /\ inv[i].pc = "awaiting"
  /\ \E o \in ConcurrentOutcomes :
       inv' = [j \in DOMAIN inv |->
                 IF inv[j].pc = "awaiting" THEN Resume(inv[j], o) ELSE inv[j]]
  /\ UNCHANGED Config

\* the awaited HTTP call of slot i ends: only that invocation resumes
Answer(i) ==
  /\ inv[i].pc = "awaiting"
  /\ \E o \in ConcurrentOutcomes : inv' = [inv EXCEPT ![i] = Resume(inv[i], o)]
  /\ UNCHANGED Config

NextConcurrent ==
  \E i \in Invocations :
    \/ Invoke(i)
    \/ make_request(i)
    \/ Answer(i)
    \/ Return(i)

SpecConcurrent == InitConcurrent /\ [][NextConcurrent]_vars

\* what the invocation in slot has come to when it runs with no other
\* invocation in flight: a function of its tool and arguments, of the
\* configuration, and of the answer (slot.resp) to its own call
Alone(slot) ==
  LET entered == Enter(slot.op, slot.args)
      called == IF entered.pc = "calling" THEN Send(entered) ELSE entered
  IN CASE slot.pc = "idle" -> IdleSlot
       [] slot.pc = "calling" -> entered
       [] slot.pc = "awaiting" -> called
       [] OTHER -> IF called.pc = "awaiting" THEN Resume(called, slot.resp) ELSE called

(***************************************************************************)
(* C14.  Concurrent invocations do not interfere.  No step of any tool     *)
(* writes the configuration (API_KEY, API_SECRET, ENVIRONMENT); a step of  *)
(* one invocation changes no other invocation; and under every             *)
(* interleaving each invocation is, at each of its stages and at its       *)
(* return, exactly what it is when it runs alone with the same inputs, the *)
(* same configuration and the same remote response to its own call.        *)
(***************************************************************************)
C14_NoInterference ==
  [][/\ Config' = Config
     /\ \A i \in DOMAIN inv : inv[i] = Alone(inv[i])
     /\ \A i \in DOMAIN inv :
          inv'[i] # inv[i] => \A j \in DOMAIN inv \ {i} : inv'[j] = inv[j]]_vars

\* two invocations in flight at once, both answered, with different results
C14_Witness ==
  /\ inv[1].pc = "done" /\ inv[1].op = "get_position" /\ inv[1].calls = 1
  /\ inv[1].resp = HttpJson(200, JDict(<<>>)) /\ ~TextStartsWithFail(inv[1].result)
  /\ inv[2].pc = "done" /\ inv[2].op = "cancel_order" /\ inv[2].calls = 1
  /\ inv[2].resp = HttpText(404, "Not Found") /\ inv[2].result.code = 404

====
